---- MODULE Spec2Model ----
(***************************************************************************)
(* A model of tidypath.py: main() walks opts.ENV_VARS and calls process()  *)
(* on every name; process() reads the variable, splits it on os.pathsep    *)
(* and renders it as a report (-L), a numbered listing (-l) or a tidied    *)
(* shell path (default).                                                   *)
(*                                                                         *)
(* A python str is modelled as a sequence of one-character strings, so     *)
(* that split, join, expanduser and normpath are computed character by     *)
(* character as the library computes them.                                 *)
(***************************************************************************)
EXTENDS Integers, Sequences, FiniteSets, TLC

VARIABLES
    opts,       \* the parsed command line (getopts), ENV_VARS included
    environ,    \* os.environ: variable name -> value
    i,          \* how many names of opts.ENV_VARS main has handed to process
    stdout,     \* the lines written to sys.stdout, in order
    stderr,     \* the lines written to sys.stderr
    exit_code,  \* <<>> while the program runs, <<code>> once it has exited
    dups,       \* the dict the latest call of process left behind
    calls,      \* history: per call of process its name, components, lines
    captured    \* history: what the invoking shell has exported so far

vars == <<opts, environ, i, stdout, stderr, exit_code, dups, calls, captured>>

(***************************************************************************)
(* Bounds of the model.                                                    *)
(***************************************************************************)
\* Longest value of an environment variable, in characters.
MaxLen == 3
\* How many times the invoking shell re-exports a variable from the output.
MaxExports == 2

(***************************************************************************)
(* The world around the program: separator, alphabet, file system.         *)
(***************************************************************************)
pathsep == ":"
Chars == {pathsep, "/", ".", "~", "a"}

RECURSIVE StrsOfLen(_)
StrsOfLen(n) ==
    IF n = 0 THEN {<<>>}
    ELSE {Append(s, c) : s \in StrsOfLen(n - 1), c \in Chars}

Strs == UNION {StrsOfLen(n) : n \in 0..MaxLen}

\* os.getcwd(), os.environ['HOME'], the passwd database, the directories
\* that exist.
getcwd == <<"/">>
HOME == <<"/", "a">>
pw_dir == [name \in {<<"a">>} |-> <<"/", "a">>]
Files == {<<"/">>}

\* The lists of names that may be given on the command line: P and Q are
\* defined in the environment, N never is.
ArgLists ==
    {<<>>, <<"P">>, <<"N">>, <<"P", "P">>, <<"P", "Q">>, <<"P", "N">>,
     <<"N", "P">>}
\* The value of the second variable, Q.
QValue == <<"~", pathsep, ".">>

(***************************************************************************)
(* str methods.                                                            *)
(***************************************************************************)
startswith(s, p) == Len(s) >= Len(p) /\ SubSeq(s, 1, Len(p)) = p

endswith(s, c) == Len(s) > 0 /\ s[Len(s)] = c

\* s.find(c, from): the least 1-based index >= from of c in s, 0 when none.
find(s, c, from) ==
    LET hits == {k \in from..Len(s) : s[k] = c}
    IN  IF hits = {} THEN 0 ELSE CHOOSE k \in hits : \A h \in hits : k <= h

RECURSIVE rstrip(_, _)
rstrip(s, c) == IF endswith(s, c) THEN rstrip(SubSeq(s, 1, Len(s) - 1), c) ELSE s

\* s.split(sep): every token between separators, '' gives [''].
RECURSIVE split(_, _)
split(s, sep) ==
    LET k == find(s, sep, 1)
    IN  IF k = 0 THEN <<s>>
        ELSE <<SubSeq(s, 1, k - 1)>> \o split(SubSeq(s, k + 1, Len(s)), sep)

\* sep.join(comps), with a trailing separator: a slip.
RECURSIVE join_trailing(_, _)
join_trailing(sep, comps) ==
    IF comps = <<>> THEN <<>>
    ELSE comps[1] \o <<sep>> \o join_trailing(sep, Tail(comps))

\* sep.join(comps)
RECURSIVE join(_, _)
join(sep, comps) ==
    IF comps = <<>> THEN <<>>
    ELSE IF Len(comps) = 1 THEN comps[1]
    ELSE comps[1] \o <<sep>> \o join(sep, Tail(comps))

(***************************************************************************)
(* posixpath: expanduser, join, normpath, abspath, exists.                 *)
(***************************************************************************)
expanduser(path) ==
    IF ~startswith(path, <<"~">>) THEN path
    ELSE LET f == find(path, "/", 2)
             k == IF f = 0 THEN Len(path) + 1 ELSE f
             name == SubSeq(path, 2, k - 1)
             rest == SubSeq(path, k, Len(path))
         IN  IF k = 2
             THEN LET r == rstrip(HOME, "/") \o rest
                  IN  IF r = <<>> THEN <<"/">> ELSE r
             ELSE IF name \notin DOMAIN pw_dir THEN path
             ELSE LET r == rstrip(pw_dir[name], "/") \o rest
                  IN  IF r = <<>> THEN <<"/">> ELSE r

isabs(path) == startswith(path, <<"/">>)

path_join(a, p) ==
    IF isabs(p) THEN p
    ELSE IF a = <<>> \/ endswith(a, "/") THEN a \o p
    ELSE a \o <<"/">> \o p

\* The loop of normpath over the '/'-separated components.
RECURSIVE normpath_loop(_, _, _)
normpath_loop(comps, new_comps, initial_slashes) ==
    IF comps = <<>> THEN new_comps
    ELSE LET comp == comps[1]
             n == Len(new_comps)
             next ==
                 IF comp = <<>> \/ comp = <<".">> THEN new_comps
                 ELSE IF \/ comp /= <<".", ".">>
                         \/ (initial_slashes = 0 /\ n = 0)
                         \/ (n > 0 /\ new_comps[n] = <<".", ".">>)
                      THEN Append(new_comps, comp)
                 ELSE IF n > 0 THEN SubSeq(new_comps, 1, n - 1)
                 ELSE new_comps
         IN  normpath_loop(Tail(comps), next, initial_slashes)

normpath(path) ==
    IF path = <<>> THEN <<".">>
    ELSE LET initial_slashes ==
                 IF ~startswith(path, <<"/">>) THEN 0
                 ELSE IF startswith(path, <<"/", "/">>)
                         /\ ~startswith(path, <<"/", "/", "/">>) THEN 2
                 ELSE 1
             body == join("/", normpath_loop(split(path, "/"), <<>>, initial_slashes))
             lead == IF initial_slashes = 0 THEN <<>>
                     ELSE IF initial_slashes = 2 THEN <<"/", "/">>
                     ELSE <<"/">>
             res == lead \o body
         IN  IF res = <<>> THEN <<".">> ELSE res

abspath(path) ==
    IF isabs(path) THEN normpath(path) ELSE normpath(path_join(getcwd, path))

\* os.path.exists: the kernel resolves a leading '//' as '/'.
path_exists(path) ==
    LET p == IF startswith(path, <<"/", "/">>) THEN Tail(path) ELSE path
    IN  p \in Files

(***************************************************************************)
(* tidypath.py: get_canon, is_dup, exists.                                 *)
(***************************************************************************)
\* os.path.abspath(os.path.expanduser(comp)) of every component a value of
\* at most MaxLen characters can hold, computed once.
canonical ==
    [comp \in {s \in Strs : find(s, pathsep, 1) = 0} |-> abspath(expanduser(comp))]

get_canon(comp) == canonical[comp]

\* is_dup that looks the literal text up, not the canonical form: a slip.
is_dup_literal(seen, comp) == comp \in seen

\* The value is_dup returns; the Seen-Set is the key set of the dict.
is_dup(seen, comp) == get_canon(comp) \in seen

\* The dict after is_dup(seen, comp).
is_dup_seen(seen, comp) == seen \cup {get_canon(comp)}

exists(comp) == path_exists(get_canon(comp))

\* A Seen-Set that is carried over from the previous call: a slip.
new_dups_stale(old) == old

\* dups = {} at the head of report and of the loop of process; old is the
\* dict the previous call left behind.
new_dups(old) == {}

(***************************************************************************)
(* report (-L).                                                            *)
(***************************************************************************)
Colors(o) ==
    IF o.color
    THEN [crb |-> "red-bold", cgb |-> "green-bold", crs |-> "reset",
          cuc |-> IF o.undefined THEN "red-bold" ELSE "green-bold"]
    ELSE [crb |-> "", cgb |-> "", crs |-> "", cuc |-> ""]

\* The flag kept, were it set only for an entry that is unique and exists.
kept_and(dup, ex) == ~dup /\ ex

\* The flag kept at line 138: set by the unique branch or the exists branch.
kept(dup, ex) == ~dup \/ ex

\* One pass of the for loop of report over comps[k..], st the loop's state.
RECURSIVE report_loop(_, _, _, _)
report_loop(o, comps, k, st) ==
    IF k > Len(comps) THEN st
    ELSE LET comp == comps[k]
             c == Colors(o)
             dup == is_dup(st.dups, comp)
             ex == exists(comp)
             line == [kind |-> "entry", idx |-> k,
                      d |-> IF dup THEN "d" ELSE "u",
                      dcolor |-> IF dup THEN c.crb ELSE c.cgb,
                      e |-> IF ex THEN "e" ELSE "n",
                      ecolor |-> IF ex THEN c.cgb ELSE c.cuc,
                      comp |-> comp]
         IN  report_loop(o, comps, k + 1,
                 [dups |-> is_dup_seen(st.dups, comp),
                  lines |-> Append(st.lines, line),
                  numd |-> st.numd + (IF dup THEN 1 ELSE 0),
                  numf |-> st.numf + (IF dup THEN 1 ELSE 0)
                                   + (IF ~ex /\ o.undefined THEN 1 ELSE 0),
                  numu |-> st.numu + (IF ex THEN 0 ELSE 1),
                  numk |-> st.numk + (IF kept(dup, ex) THEN 1 ELSE 0)])

\* report(opts, comps, env): the lines written and the dict left behind.
report(o, comps, env, old) ==
    LET st == report_loop(o, comps, 1,
                  [dups |-> new_dups(old), lines |-> <<>>,
                   numd |-> 0, numf |-> 0, numu |-> 0, numk |-> 0])
        c == Colors(o)
    IN  [dups |-> st.dups,
         lines |-> <<[kind |-> "name", env |-> env]>> \o st.lines \o
                   <<[kind |-> "summary", numk |-> st.numk, numf |-> st.numf,
                      numd |-> st.numd, numu |-> st.numu, crs |-> c.crs,
                      crb |-> c.crb, cgb |-> c.cgb, cuc |-> c.cuc]>>]

(***************************************************************************)
(* process.                                                                *)
(***************************************************************************)
\* The component appended in its canonical form: a slip.
keeper_canon(comp) == get_canon(comp)

\* new_comps.append(comp): the literal text is kept.
keeper(comp) == comp

\* The for loop of process over comps[k..].
RECURSIVE process_loop(_, _, _, _)
process_loop(o, comps, k, st) ==
    IF k > Len(comps) THEN st
    ELSE LET comp == comps[k]
             seen == is_dup_seen(st.dups, comp)
         IN  IF is_dup(st.dups, comp)
             THEN process_loop(o, comps, k + 1, [st EXCEPT !.dups = seen])
             ELSE IF o.undefined /\ ~exists(comp)
             THEN process_loop(o, comps, k + 1, [st EXCEPT !.dups = seen])
             ELSE process_loop(o, comps, k + 1,
                      [dups |-> seen,
                       new_comps |-> Append(st.new_comps, keeper(comp))])

\* os.pathsep.join with a separator after every component: a slip.
pathsep_join_trailing(comps) == join_trailing(pathsep, comps)

\* os.pathsep.join(new_comps), the line print writes.
pathsep_join(comps) == join(pathsep, comps)

\* The listing of -l.
list_lines(comps) ==
    [k \in 1..Len(comps) |-> [kind |-> "item", idx |-> k, comp |-> comps[k]]]

\* An absent variable read as one empty component: a slip.
silent_comps_blank == <<<<>>>>

\* comps = [] for an absent variable under -s.
silent_comps == <<>>

\* The component list process works on, for a name it does not abort on.
get_comps(env) ==
    IF env \notin DOMAIN environ THEN silent_comps
    ELSE split(environ[env], pathsep)

\* An err that writes its message and returns.
err_returns(msg) == [line |-> [kind |-> "ERROR", msg |-> msg], exit |-> <<>>]

\* err(msg): the message on stderr and sys.exit(exit_code).
err(msg) == [line |-> [kind |-> "ERROR", msg |-> msg], exit |-> <<1>>]

Running == exit_code = <<>> /\ i < Len(opts.ENV_VARS)

env_now == opts.ENV_VARS[i + 1]

Record(env, comps, lines, seen, fatal) ==
    [env |-> env, comps |-> comps, lines |-> lines, dups |-> seen,
     fatal |-> fatal]

\* process: the variable is absent and -s is off.
ProcessErr ==
    /\ Running
    /\ env_now \notin DOMAIN environ
    /\ ~opts.silent
    /\ LET e == err(<<"environment variable not defined", env_now>>)
       IN  /\ stderr' = Append(stderr, e.line)
           /\ exit_code' = e.exit
    /\ i' = i + 1
    /\ calls' = Append(calls, Record(env_now, <<>>, <<>>, dups, TRUE))
    /\ UNCHANGED <<opts, environ, stdout, dups, captured>>

\* process with -L.
ProcessReport ==
    /\ Running
    /\ env_now \in DOMAIN environ \/ opts.silent
    /\ opts.list_report
    /\ LET comps == get_comps(env_now)
           r == report(opts, comps, env_now, dups)
       IN  /\ stdout' = stdout \o r.lines
           /\ dups' = r.dups
           /\ calls' = Append(calls, Record(env_now, comps, r.lines, r.dups, FALSE))
    /\ i' = i + 1
    /\ UNCHANGED <<opts, environ, stderr, exit_code, captured>>

\* process with -l and without -L.
ProcessList ==
    /\ Running
    /\ env_now \in DOMAIN environ \/ opts.silent
    /\ ~opts.list_report
    /\ opts.list
    /\ LET comps == get_comps(env_now)
           st == process_loop(opts, comps, 1,
                     [dups |-> new_dups(dups), new_comps |-> <<>>])
           lines == list_lines(comps)
       IN  /\ stdout' = stdout \o lines
           /\ dups' = st.dups
           /\ calls' = Append(calls, Record(env_now, comps, lines, st.dups, FALSE))
    /\ i' = i + 1
    /\ UNCHANGED <<opts, environ, stderr, exit_code, captured>>

\* process with neither -l nor -L.
ProcessShell ==
    /\ Running
    /\ env_now \in DOMAIN environ \/ opts.silent
    /\ ~opts.list_report
    /\ ~opts.list
    /\ LET comps == get_comps(env_now)
           st == process_loop(opts, comps, 1,
                     [dups |-> new_dups(dups), new_comps |-> <<>>])
           lines == <<[kind |-> "path", text |-> pathsep_join(st.new_comps)]>>
       IN  /\ stdout' = stdout \o lines
           /\ dups' = st.dups
           /\ calls' = Append(calls, Record(env_now, comps, lines, st.dups, FALSE))
    /\ i' = i + 1
    /\ UNCHANGED <<opts, environ, stderr, exit_code, captured>>

\* main returns after the last name.
MainReturn ==
    /\ exit_code = <<>>
    /\ i = Len(opts.ENV_VARS)
    /\ exit_code' = <<0>>
    /\ UNCHANGED <<opts, environ, i, stdout, stderr, dups, calls, captured>>

\* export X=$(tidypath.py X): the invoking shell stores the line printed for
\* X in X and runs the same command again.
Reexport ==
    /\ exit_code = <<0>>
    /\ Len(opts.ENV_VARS) = 1
    /\ ~opts.list_report /\ ~opts.list
    /\ Len(captured) < MaxExports
    /\ LET x == opts.ENV_VARS[1]
           out == stdout[1].text
           old == IF x \in DOMAIN environ THEN <<environ[x]>> ELSE <<>>
       IN  /\ captured' = Append(captured, [old |-> old, new |-> out])
           /\ environ' = [n \in DOMAIN environ \cup {x} |->
                             IF n = x THEN out ELSE environ[n]]
    /\ i' = 0
    /\ stdout' = <<>>
    /\ stderr' = <<>>
    /\ exit_code' = <<>>
    /\ dups' = {}
    /\ calls' = <<>>
    /\ UNCHANGED opts

BOOL == {TRUE, FALSE}

Opts ==
    [color : BOOL, list : BOOL, list_report : BOOL, silent : BOOL,
     undefined : BOOL, ENV_VARS : ArgLists]

Init ==
    /\ opts \in Opts
    /\ \E p \in Strs :
           environ = [n \in {"P", "Q"} |-> IF n = "P" THEN p ELSE QValue]
    /\ i = 0
    /\ stdout = <<>>
    /\ stderr = <<>>
    /\ exit_code = <<>>
    /\ dups = {}
    /\ calls = <<>>
    /\ captured = <<>>

main == ProcessErr \/ ProcessReport \/ ProcessList \/ ProcessShell \/ MainReturn

Next == main

Spec == Init /\ [][Next]_vars

\* One variable, tidied for the shell and exported again.
InitShell ==
    /\ Init
    /\ Len(opts.ENV_VARS) = 1
    /\ ~opts.list_report /\ ~opts.list

NextShell == ProcessErr \/ ProcessShell \/ MainReturn \/ Reexport

SpecShell == InitShell /\ [][NextShell]_vars

(***************************************************************************)
(* Properties.                                                             *)
(***************************************************************************)
Done(c) == ~calls[c].fatal

\* comps[b] has the canonical form of an earlier component.
Repeats(comps, b) ==
    \E a \in 1..(b - 1) : get_canon(comps[a]) = get_canon(comps[b])

\* The entry line report wrote for component b of call c.
Entry(c, b) == calls[c].lines[b + 1]

Summary(c) == calls[c].lines[Len(calls[c].lines)]

\* The components of comps at the indexes in S, in order.
RECURSIVE Pick(_, _, _)
Pick(comps, S, k) ==
    IF k > Len(comps) THEN <<>>
    ELSE (IF k \in S THEN <<comps[k]>> ELSE <<>>) \o Pick(comps, S, k + 1)

RECURSIVE Concat(_, _)
Concat(cs, n) == IF n = 0 THEN <<>> ELSE Concat(cs, n - 1) \o cs[n].lines

Absent(env) == env \notin DOMAIN environ

\* C1: in a report, the entry of component b is marked duplicate exactly
\* when an earlier component of the same list has the same canonical form;
\* so the first occurrence is unique and every later one a duplicate.
C1_FirstOccurrenceWins ==
    opts.list_report =>
        \A c \in 1..Len(calls) : Done(c) =>
            \A b \in 1..Len(calls[c].comps) :
                (Entry(c, b).d = "d") <=> Repeats(calls[c].comps, b)

C1_Witness ==
    /\ opts.list_report
    /\ \E c \in 1..Len(calls) :
           /\ Done(c)
           /\ \E a, b \in 1..Len(calls[c].comps) :
                  /\ a < b
                  /\ calls[c].comps[a] /= calls[c].comps[b]
                  /\ get_canon(calls[c].comps[a]) = get_canon(calls[c].comps[b])
                  /\ Entry(c, a).d = "u"
                  /\ Entry(c, b).d = "d"

\* C2: in the default mode the one line printed is the separator-join of
\* the original components, literal and in order, that repeat no earlier
\* canonical form and, under -u, exist.
C2_ShellOutput ==
    (~opts.list_report /\ ~opts.list) =>
        \A c \in 1..Len(calls) : Done(c) =>
            LET comps == calls[c].comps
                S == {k \in 1..Len(comps) :
                         /\ ~Repeats(comps, k)
                         /\ opts.undefined => exists(comps[k])}
            IN  calls[c].lines =
                    <<[kind |-> "path", text |-> join(pathsep, Pick(comps, S, 1))]>>

C2_Witness ==
    /\ ~opts.list_report /\ ~opts.list /\ opts.undefined
    /\ \E c \in 1..Len(calls) :
           LET comps == calls[c].comps
           IN  /\ Done(c)
               /\ Len(comps) = 3
               /\ comps[1] /= get_canon(comps[1])
               /\ exists(comps[1])
               /\ Repeats(comps, 2)
               /\ ~Repeats(comps, 3) /\ ~exists(comps[3])
               /\ calls[c].lines = <<[kind |-> "path", text |-> comps[1]]>>

\* C3: once the shell has stored the printed line in the variable, running
\* the default mode again prints the same line.
C3_Idempotent ==
    (captured /= <<>> /\ exit_code = <<0>>) =>
        stdout = <<[kind |-> "path", text |-> captured[Len(captured)].new]>>

C3_Witness ==
    /\ Len(captured) = 1
    /\ exit_code = <<0>>
    /\ captured[1].old /= <<>>
    /\ captured[1].old[1] /= captured[1].new
    /\ find(captured[1].new, pathsep, 1) > 0
    /\ stdout = <<[kind |-> "path", text |-> captured[1].new]>>

\* C4: a name that is absent without -s ends the run: it wrote nothing to
\* stdout, it is the last name processed, the exit code is 1, and the names
\* before it were processed in the order given; a run that exits 0 without
\* -s met no absent name.
C4_MissingIsFatal ==
    /\ \A c \in 1..Len(calls) :
           (Absent(calls[c].env) /\ ~opts.silent) =>
               /\ calls[c].lines = <<>>
               /\ c = Len(calls)
               /\ i = c
               /\ exit_code = <<1>>
               /\ stdout = Concat(calls, c - 1)
               /\ \A j \in 1..(c - 1) :
                      calls[j].env = opts.ENV_VARS[j] /\ Done(j)
    /\ (exit_code = <<0>> /\ ~opts.silent) =>
           \A k \in 1..Len(opts.ENV_VARS) : ~Absent(opts.ENV_VARS[k])

C4_Witness ==
    /\ ~opts.silent
    /\ Len(opts.ENV_VARS) = 2
    /\ Len(calls) = 1
    /\ Absent(calls[1].env)
    /\ exit_code = <<1>>
    /\ stdout = <<>>

\* C5: a name that is absent under -s is an empty list and the run goes
\* on: the default mode prints one empty line, -l prints nothing, -L prints
\* the header and a summary of four zeros and no entry.
C5_MissingSilent ==
    \A c \in 1..Len(calls) :
        (Absent(calls[c].env) /\ opts.silent) =>
            /\ Done(c)
            /\ exit_code /= <<1>>
            /\ calls[c].comps = <<>>
            /\ (~opts.list_report /\ ~opts.list) =>
                   calls[c].lines = <<[kind |-> "path", text |-> <<>>]>>
            /\ (~opts.list_report /\ opts.list) => calls[c].lines = <<>>
            /\ opts.list_report =>
                   /\ Len(calls[c].lines) = 2
                   /\ calls[c].lines[1] = [kind |-> "name", env |-> calls[c].env]
                   /\ Summary(c).kind = "summary"
                   /\ Summary(c).numk = 0 /\ Summary(c).numf = 0
                   /\ Summary(c).numd = 0 /\ Summary(c).numu = 0

C5_Witness ==
    /\ opts.silent /\ opts.list_report
    /\ Len(calls) = 2
    /\ Absent(calls[1].env)
    /\ Len(calls[1].lines) = 2
    /\ Len(calls[2].lines) > 2
    /\ exit_code = <<0>>

\* C6: in a report Num Kept is the number of entries marked unique or
\* existing, each counted once, whatever -u says.
C6_KeptRule ==
    opts.list_report =>
        \A c \in 1..Len(calls) : Done(c) =>
            Summary(c).numk =
                Cardinality({b \in 1..Len(calls[c].comps) :
                                Entry(c, b).d = "u" \/ Entry(c, b).e = "e"})

C6_Witness ==
    /\ opts.list_report
    /\ \E c \in 1..Len(calls) :
           /\ Done(c)
           /\ \E a, b \in 1..Len(calls[c].comps) :
                  /\ Entry(c, a).d = "u" /\ Entry(c, a).e = "n"
                  /\ Entry(c, b).d = "d" /\ Entry(c, b).e = "n"
           /\ Summary(c).numk = Len(calls[c].comps) - 1

\* C7: in a report Num Filtered is Num Duplicates plus, under -u only, the
\* number of entries that are unique and missing.
C7_FilteredCount ==
    opts.list_report =>
        \A c \in 1..Len(calls) : Done(c) =>
            Summary(c).numf =
                Summary(c).numd +
                (IF opts.undefined
                 THEN Cardinality({b \in 1..Len(calls[c].comps) :
                                      Entry(c, b).d = "u" /\ Entry(c, b).e = "n"})
                 ELSE 0)

\* C8: with -l and -u the listing holds no entry that does not exist.
C8_ListDropsUndefined ==
    (~opts.list_report /\ opts.list /\ opts.undefined) =>
        \A c \in 1..Len(calls) :
            \A k \in 1..Len(calls[c].lines) : exists(calls[c].lines[k].comp)

\* C9: an empty value splits into no component, and a report of it has no
\* entry and four zeros; any other value splits into its tokens, the empty
\* ones too.
C9_SplitEmptyValue ==
    \A c \in 1..Len(calls) :
        (Done(c) /\ ~Absent(calls[c].env)) =>
            LET v == environ[calls[c].env]
                comps == calls[c].comps
            IN  /\ v = <<>> =>
                       /\ comps = <<>>
                       /\ opts.list_report =>
                              /\ Len(calls[c].lines) = 2
                              /\ Summary(c).numk = 0 /\ Summary(c).numf = 0
                              /\ Summary(c).numd = 0 /\ Summary(c).numu = 0
                /\ v /= <<>> =>
                       /\ Len(comps) = 1 + Cardinality({k \in 1..Len(v) : v[k] = pathsep})
                       /\ \A k \in 1..Len(comps) : find(comps[k], pathsep, 1) = 0
                       /\ join(pathsep, comps) = v

\* C10: the Seen-Set a call leaves behind holds the canonical forms of its
\* own components only, and two calls on the same list write the same lines.
C10_SeenSetPerVariable ==
    /\ \A c \in 1..Len(calls) : Done(c) =>
           calls[c].dups =
               {get_canon(calls[c].comps[k]) : k \in 1..Len(calls[c].comps)}
    /\ \A c, e \in 1..Len(calls) :
           (Done(c) /\ Done(e) /\ calls[c].env = calls[e].env) =>
               calls[c].lines = calls[e].lines

C10_Witness ==
    /\ opts.list_report
    /\ Len(calls) = 2
    /\ Done(1) /\ Done(2)
    /\ calls[1].env /= calls[2].env
    /\ Len(calls[2].comps) > 0
    /\ get_canon(calls[2].comps[1]) \in calls[1].dups
    /\ Entry(2, 1).d = "u"

====
